---------------------------- MODULE Spec2Model ----------------------------
(***************************************************************************)
(* A model of meta/metautil.py: the GradleSpecifier coordinate type, the   *)
(* two format-version validators with the fields they guard, and the       *)
(* shared-package persistence helpers.                                     *)
(*                                                                         *)
(* A Python str is a sequence of one-character strings; None is the empty  *)
(* tuple and a present value x is the one-element tuple <<x>>.             *)
(***************************************************************************)
EXTENDS Integers, Sequences, FiniteSets, TLC

VARIABLES
    pc,         \* position of the scenario being run
    shape,      \* how the coordinate string was put together (segments, suffixes)
    name,       \* the str handed to GradleSpecifier(name)
    self,       \* the GradleSpecifier built from name, None when __init__ raised
    err,        \* the exception that left the last call, "none" when it returned
    str,        \* result of self.toString()
    reparsed,   \* GradleSpecifier(self.toString())
    filename,   \* result of self.getFilename()
    base,       \* result of self.getBase()
    path,       \* result of self.getPath()
    shapes,     \* how each compared coordinate string was put together
    names,      \* the coordinate strings of the libraries being compared
    objs,       \* the GradleSpecifier wrapped from each of names
    hashSeed,   \* the interpreter's str hash seed (PYTHONHASHSEED)
    eqM,        \* eqM[i, j]: result of objs[i] == objs[j]
    neM,        \* neM[i, j]: result of objs[i] != objs[j]
    ltM,        \* ltM[i, j]: result of objs[i] < objs[j]
    hashes,     \* hashes[i]: result of hash(objs[i])
    gKind,      \* the class whose version field is decoded
    gInput,     \* the version field of the input JSON, None when it is absent
    gValue,     \* the version field of the decoded object
    gObj,       \* whether decode gave the caller an object
    gErr,       \* what the validator or the decode raised
    fs,         \* the files under PMC_DIR: path -> content, None when missing
    mem,        \* the caller's PolyMCSharedPackageData, None before it has one
    diag,       \* what has been printed to stdout
    last        \* the last call made: its arguments, its outcome, mem before it

coordVars == <<shape, name, self, err, str, reparsed, filename, base, path>>
cmpVars == <<shapes, names, objs, hashSeed, eqM, neM, ltM, hashes>>
gateVars == <<gKind, gInput, gValue, gObj, gErr>>
persistVars == <<fs, mem, diag, last>>
vars == <<pc, coordVars, cmpVars, gateVars, persistVars>>

-----------------------------------------------------------------------------
(* Bounds of the model *)

\* most ':'-separated segments of a generated coordinate string
MaxSegs == 5
\* most '@' characters of a generated coordinate string
MaxAts == 2
\* most ':'-separated segments of a coordinate string that is compared
MaxCmpSegs == 4
\* largest str hash seed
MaxHashSeed == 1
\* largest version number an input file carries
MaxVersion == 23
\* most messages printed before I/O stops failing
MaxDiag == 2

-----------------------------------------------------------------------------
(* Python values *)

None == <<>>
Some(x) == <<x>>
IsNone(o) == Len(o) = 0
Val(o) == o[1]

\* Unicode code point of the characters the model uses (str comparison)
Ord(ch) ==
    CASE ch = "-" -> 45  [] ch = "." -> 46  [] ch = "/" -> 47
      [] ch = "0" -> 48  [] ch = "1" -> 49  [] ch = "2" -> 50
      [] ch = "9" -> 57  [] ch = ":" -> 58  [] ch = "@" -> 64
      [] ch = "a" -> 97  [] ch = "g" -> 103 [] ch = "i" -> 105
      [] ch = "j" -> 106 [] ch = "l" -> 108 [] ch = "o" -> 111
      [] ch = "p" -> 112 [] ch = "r" -> 114 [] ch = "w" -> 119
      [] ch = "z" -> 122

\* str < str: lexicographic by code point, a proper prefix is smaller
RECURSIVE StrLt(_, _)
StrLt(s, t) ==
    IF t = <<>> THEN FALSE
    ELSE IF s = <<>> THEN TRUE
    ELSE IF Head(s) = Head(t) THEN StrLt(Tail(s), Tail(t))
    ELSE Ord(Head(s)) < Ord(Head(t))

\* str.split(sep) for a one-character sep: every occurrence splits, empty
\* pieces are kept, the result has one more element than sep occurs
RECURSIVE Split(_, _)
Split(s, sep) ==
    IF s = <<>> THEN << <<>> >>
    ELSE LET rest == Split(Tail(s), sep)
         IN  IF Head(s) = sep
             THEN << <<>> >> \o rest
             ELSE << <<Head(s)>> \o Head(rest) >> \o Tail(rest)

\* str.replace(old, new) for one-character old and new
RECURSIVE Replace(_, _, _)
Replace(s, old, new) ==
    IF s = <<>> THEN <<>>
    ELSE << (IF Head(s) = old THEN new ELSE Head(s)) >> \o Replace(Tail(s), old, new)

\* hash(str): the interpreter's keyed hash of the characters, at a reduced
\* width; equal strings hash equal under one seed, different strings may not
RECURSIVE StrHashFrom(_, _)
StrHashFrom(h, s) ==
    IF s = <<>> THEN h
    ELSE StrHashFrom((h * 31 + Ord(Head(s))) % (2 ^ 16), Tail(s))

StrHash(s, seed) == StrHashFrom(seed, s)

jar == <<"j", "a", "r">>
zip == <<"z", "i", "p">>

-----------------------------------------------------------------------------
(* class GradleSpecifier *)

\* GradleSpecifier.__init__ as it would be if a missing version were tolerated
\* (components padded instead of indexed): two segments are enough
GradleSpecifier_lenient(n) ==
    LET atSplit    == Split(n, "@")
        components == Split(atSplit[1], ":")
    IN  IF Len(components) < 2
        THEN [raised |-> "IndexError", obj |-> None]
        ELSE [raised |-> "none",
              obj |-> Some([group      |-> components[1],
                            artifact   |-> components[2],
                            version    |-> IF Len(components) >= 3
                                           THEN components[3] ELSE <<>>,
                            extension  |-> IF Len(atSplit) = 2 THEN atSplit[2] ELSE jar,
                            classifier |-> IF Len(components) = 4
                                           THEN Some(components[4]) ELSE None])]

\* GradleSpecifier.__init__(name): the object built, or the exception raised
\* by components[1] / components[2] when the list is too short
GradleSpecifier(n) ==
    LET atSplit    == Split(n, "@")
        components == Split(atSplit[1], ":")
    IN  IF Len(components) < 3
        THEN [raised |-> "IndexError", obj |-> None]
        ELSE [raised |-> "none",
              obj |-> Some([group      |-> components[1],
                            artifact   |-> components[2],
                            version    |-> components[3],
                            extension  |-> IF Len(atSplit) = 2 THEN atSplit[2] ELSE jar,
                            classifier |-> IF Len(components) = 4
                                           THEN Some(components[4]) ELSE None])]

\* Python truth value of self.classifier: None and '' are both false
Truthy(c) == ~IsNone(c) /\ Val(c) # <<>>

toString(o) ==
    LET extensionStr == IF o.extension # jar THEN <<"@">> \o o.extension ELSE <<>>
    IN  IF Truthy(o.classifier)
        THEN o.group \o <<":">> \o o.artifact \o <<":">> \o o.version
                 \o <<":">> \o Val(o.classifier) \o extensionStr
        ELSE o.group \o <<":">> \o o.artifact \o <<":">> \o o.version \o extensionStr

getFilename(o) ==
    IF Truthy(o.classifier)
    THEN o.artifact \o <<"-">> \o o.version \o <<"-">> \o Val(o.classifier)
             \o <<".">> \o o.extension
    ELSE o.artifact \o <<"-">> \o o.version \o <<".">> \o o.extension

\* getBase as it would be without the '.' -> '/' replacement of the group
getBase_dotted(o) ==
    o.group \o <<"/">> \o o.artifact \o <<"/">> \o o.version \o <<"/">>

getBase(o) ==
    Replace(o.group, ".", "/") \o <<"/">> \o o.artifact \o <<"/">> \o o.version \o <<"/">>

getPath(o) == getBase(o) \o getFilename(o)

\* __lt__
Lt(a, b) == StrLt(toString(a), toString(b))

\* __eq__ as it would be if the extension were compared too
Eq_withExtension(a, b) ==
    /\ a.group = b.group
    /\ a.artifact = b.artifact
    /\ a.version = b.version
    /\ a.classifier = b.classifier
    /\ a.extension = b.extension

\* __eq__
Eq(a, b) ==
    /\ a.group = b.group
    /\ a.artifact = b.artifact
    /\ a.version = b.version
    /\ a.classifier = b.classifier

\* __ne__
Ne(a, b) == ~Eq(a, b)

\* __hash__
Hash(a, seed) == StrHash(toString(a), seed)

-----------------------------------------------------------------------------
(* Coordinate strings the scenarios feed to the program *)

SegWords == { <<>>, <<"g">>, <<"o", ".", "l">> }
ExtWords == { <<>>, jar, zip, <<"z", ":", "p">> }

SeqsUpTo(S, lo, hi) == UNION { [1..k -> S] : k \in lo..hi }

RECURSIVE Join(_, _)
Join(ws, sep) ==
    IF Len(ws) = 0 THEN <<>>
    ELSE IF Len(ws) = 1 THEN ws[1]
    ELSE ws[1] \o <<sep>> \o Join(Tail(ws), sep)

RECURSIVE Suffixed(_)
Suffixed(sufs) ==
    IF Len(sufs) = 0 THEN <<>> ELSE <<"@">> \o sufs[1] \o Suffixed(Tail(sufs))

Render(sh) == Join(sh.segs, ":") \o Suffixed(sh.sufs)

lwjgl == <<"l", "w", "j", "g", "l">>
LwjglShape ==
    [segs |-> << <<"o", "r", "g", ".">> \o lwjgl, lwjgl, <<"2", ".", "9", ".", "0">> >>,
     sufs |-> <<>>]

Shapes ==
    { [segs |-> sg, sufs |-> sf] :
        sg \in SeqsUpTo(SegWords, 1, MaxSegs), sf \in SeqsUpTo(ExtWords, 0, MaxAts) }
    \cup {LwjglShape}

\* The variables of a scenario that is not running
CoordIdle ==
    /\ shape = None /\ name = None /\ self = None /\ err = "none" /\ str = None
    /\ reparsed = None /\ filename = None /\ base = None /\ path = None

CmpIdle ==
    /\ shapes = None /\ names = None /\ objs = None /\ hashSeed = 0
    /\ eqM = None /\ neM = None /\ ltM = None /\ hashes = None

GateIdle ==
    /\ gKind = "none" /\ gInput = None /\ gValue = None /\ gObj = FALSE /\ gErr = None

NoCall ==
    [op |-> "none", uid |-> "none", io |-> "none", raised |-> "none",
     returned |-> None, before |-> None]

PersistIdle ==
    /\ fs = None /\ mem = None /\ diag = <<>> /\ last = NoCall

-----------------------------------------------------------------------------
(* Scenario 1: one coordinate is parsed, printed, parsed again, and asked   *)
(* for its paths                                                            *)

CoordInit ==
    /\ shape \in Shapes
    /\ name = Render(shape)
    /\ pc = "start"
    /\ self = None
    /\ err = "none"
    /\ str = None
    /\ reparsed = None
    /\ filename = None
    /\ base = None
    /\ path = None
    /\ CmpIdle /\ GateIdle /\ PersistIdle

\* spec = GradleSpecifier(name)
Construct ==
    /\ pc = "start"
    /\ LET r == GradleSpecifier(name)
       IN  /\ self' = r.obj
           /\ err' = r.raised
           /\ pc' = IF r.raised = "none" THEN "built" ELSE "failed"
    /\ UNCHANGED <<shape, name, str, reparsed, filename, base, path, cmpVars, gateVars, persistVars>>

\* GradleSpecifierProperty.unwrap(value): value.toString()
Unwrap ==
    /\ pc = "built"
    /\ str' = Some(toString(Val(self)))
    /\ pc' = "printed"
    /\ UNCHANGED <<shape, name, self, err, reparsed, filename, base, path, cmpVars, gateVars, persistVars>>

\* GradleSpecifierProperty.wrap(value) applied to the unwrapped string
Wrap ==
    /\ pc = "printed"
    /\ LET r == GradleSpecifier(Val(str))
       IN  /\ reparsed' = r.obj
           /\ err' = r.raised
           /\ pc' = IF r.raised = "none" THEN "reparsed" ELSE "failed"
    /\ UNCHANGED <<shape, name, self, str, filename, base, path, cmpVars, gateVars, persistVars>>

\* the three path getters on the built object
Paths ==
    /\ pc = "built"
    /\ filename' = Some(getFilename(Val(self)))
    /\ base' = Some(getBase(Val(self)))
    /\ path' = Some(getPath(Val(self)))
    /\ pc' = "pathed"
    /\ UNCHANGED <<shape, name, self, err, str, reparsed, cmpVars, gateVars, persistVars>>

CoordNext == Construct \/ Unwrap \/ Wrap \/ Paths

Spec == CoordInit /\ [][CoordNext]_vars

-----------------------------------------------------------------------------
(* Properties of scenario 1 *)

\* The canonical form the coordinate's fields spell:
\* group:artifact:version[:classifier][@extension], the classifier part present
\* when the object has a classifier, the extension part dropped for 'jar'
NormalForm(o) ==
    o.group \o <<":">> \o o.artifact \o <<":">> \o o.version
        \o (IF IsNone(o.classifier) THEN <<>> ELSE <<":">> \o Val(o.classifier))
        \o (IF o.extension = jar THEN <<>> ELSE <<"@">> \o o.extension)

\* C1: for every accepted coordinate string, toString() is the normalized form
\* of the parsed fields, and parsing that output again gives an object with the
\* same group, artifact, version, classifier and extension.
C1_RoundTrip ==
    pc = "reparsed" =>
        /\ Val(str) = NormalForm(Val(self))
        /\ Val(reparsed) = Val(self)

\* C5: parsing fails with the IndexError of the missing segment, and builds no
\* object, exactly when the part before '@' has fewer than 3 ':'-segments;
\* with 3 or more segments it never fails.
C5_FailsIffFewerThanThree ==
    pc \in {"built", "failed"} =>
        /\ (err = "IndexError" /\ IsNone(self) /\ pc = "failed") <=> Len(shape.segs) < 3
        /\ (err = "none" /\ ~IsNone(self) /\ pc = "built") <=> Len(shape.segs) >= 3

C5_Witness ==
    /\ pc = "failed" /\ Len(shape.segs) = 2 /\ err = "IndexError" /\ IsNone(self)
    /\ shape.segs[1] # <<>> /\ shape.segs[2] # <<>>

\* C6: for an accepted string, group, artifact and version are the first three
\* segments and non-empty; the classifier is the 4th segment whenever there is
\* one (also with more than 4 segments) and absent otherwise; the extension is
\* the '@' suffix when the string has one and 'jar' otherwise.
C6_SplitRules ==
    pc = "built" =>
        LET o == Val(self) IN
        /\ o.group = shape.segs[1] /\ o.group # <<>>
        /\ o.artifact = shape.segs[2] /\ o.artifact # <<>>
        /\ o.version = shape.segs[3] /\ o.version # <<>>
        /\ o.classifier = IF Len(shape.segs) >= 4 THEN Some(shape.segs[4]) ELSE None
        /\ Len(shape.sufs) = 0 => o.extension = jar
        /\ Len(shape.sufs) = 1 => o.extension = shape.sufs[1]

\* The path the group spells: every '.' is a '/', every other character is kept
Slashed(g, b) ==
    /\ Len(b) = Len(g)
    /\ \A i \in 1..Len(g) : b[i] = IF g[i] = "." THEN "/" ELSE g[i]

-----------------------------------------------------------------------------
(* Scenarios 2 and 3: the names of two (three) libraries are wrapped and    *)
(* the objects compared, hashed (ordered)                                   *)

CmpSegWords == { <<"a">>, <<"g">> }
CmpExtWords == { jar, zip }

CmpShapes(extWords) ==
    { [segs |-> sg, sufs |-> sf] :
        sg \in SeqsUpTo(CmpSegWords, 3, MaxCmpSegs), sf \in SeqsUpTo(extWords, 0, 1) }

CmpInit(n, extWords) ==
    /\ shapes \in [1..n -> CmpShapes(extWords)]
    /\ names = [i \in 1..n |-> Render(shapes[i])]
    /\ hashSeed \in 0..MaxHashSeed
    /\ pc = "start"
    /\ objs = None /\ eqM = None /\ neM = None /\ ltM = None /\ hashes = None
    /\ CoordIdle /\ GateIdle /\ PersistIdle

Idx == DOMAIN names

\* MojangLibrary.name of each library: GradleSpecifierProperty.wrap(value)
WrapNames ==
    /\ pc = "start"
    /\ objs' = [i \in Idx |-> Val(GradleSpecifier(names[i]).obj)]
    /\ pc' = "wrapped"
    /\ UNCHANGED <<coordVars, gateVars, persistVars, shapes, names, hashSeed, eqM, neM, ltM, hashes>>

\* a == b and a != b for every two of the objects
CallEq ==
    /\ pc = "wrapped"
    /\ eqM' = [i \in Idx, j \in Idx |-> Eq(objs[i], objs[j])]
    /\ neM' = [i \in Idx, j \in Idx |-> Ne(objs[i], objs[j])]
    /\ pc' = "equated"
    /\ UNCHANGED <<coordVars, gateVars, persistVars, shapes, names, objs, hashSeed, ltM, hashes>>

\* hash(a) for every object
CallHash ==
    /\ pc = "equated"
    /\ hashes' = [i \in Idx |-> Hash(objs[i], hashSeed)]
    /\ pc' = "hashed"
    /\ UNCHANGED <<coordVars, gateVars, persistVars, shapes, names, objs, hashSeed, eqM, neM, ltM>>

\* a < b for every two of the objects
CallLt ==
    /\ pc = "equated"
    /\ ltM' = [i \in Idx, j \in Idx |-> Lt(objs[i], objs[j])]
    /\ pc' = "ordered"
    /\ UNCHANGED <<coordVars, gateVars, persistVars, shapes, names, objs, hashSeed, eqM, neM, hashes>>

CompareInit == CmpInit(2, CmpExtWords)
CompareNext == WrapNames \/ CallEq \/ CallHash
SpecCompare == CompareInit /\ [][CompareNext]_vars

OrderInit == CmpInit(3, {zip}) /\ hashSeed = 0
OrderNext == WrapNames \/ CallEq \/ CallLt
SpecOrder == OrderInit /\ [][OrderNext]_vars

(* Properties of scenarios 2 and 3 *)

\* C2: a == b exactly when group, artifact, version and classifier are equal;
\* the extension never matters (two strings that differ only after '@' are
\* equal); a != b is the negation of a == b.
C2_EqIgnoresExtension ==
    pc \in {"equated", "hashed"} =>
        \A i \in Idx, j \in Idx :
            /\ eqM[i, j] <=> /\ objs[i].group = objs[j].group
                             /\ objs[i].artifact = objs[j].artifact
                             /\ objs[i].version = objs[j].version
                             /\ objs[i].classifier = objs[j].classifier
            /\ shapes[i].segs = shapes[j].segs => eqM[i, j]
            /\ (Len(shapes[i].segs) = 4 /\ shapes[j].segs = SubSeq(shapes[i].segs, 1, 3))
                   => ~eqM[i, j]
            /\ neM[i, j] = ~eqM[i, j]

C2_Witness ==
    /\ pc = "equated"
    /\ shapes[1] = [segs |-> << <<"g">>, <<"a">>, <<"a">> >>, sufs |-> <<zip>>]
    /\ shapes[2] = [segs |-> << <<"g">>, <<"a">>, <<"a">> >>, sufs |-> <<>>]
    /\ eqM[1, 2] /\ ~neM[1, 2]

\* C3: equal coordinates hash equal.
C3_EqualHashEqual ==
    pc = "hashed" =>
        \A i \in Idx, j \in Idx : eqM[i, j] => hashes[i] = hashes[j]

\* C4: a < b exactly when a.toString() < b.toString(); < is irreflexive and
\* transitive; of a < b, b < a and a == b exactly one holds.
C4_StrictTotalOrder ==
    pc = "ordered" =>
        \A i \in Idx, j \in Idx :
            /\ ltM[i, j] <=> StrLt(toString(objs[i]), toString(objs[j]))
            /\ ~ltM[i, i]
            /\ \A k \in Idx : ltM[i, j] /\ ltM[j, k] => ltM[i, k]
            /\ \/ ltM[i, j] /\ ~ltM[j, i] /\ ~eqM[i, j]
               \/ ~ltM[i, j] /\ ltM[j, i] /\ ~eqM[i, j]
               \/ ~ltM[i, j] /\ ~ltM[j, i] /\ eqM[i, j]

-----------------------------------------------------------------------------
(* The format-version gates *)

NoError == [raised |-> "none", message |-> None]

UnknownVersionException(message) ==
    [raised |-> "UnknownVersionException", message |-> message]

supportedVersion == 21

\* validateSupportedMojangVersion as it would be with >= for >
validateSupportedMojangVersion_ge(version) ==
    IF version >= supportedVersion
    THEN UnknownVersionException(
             <<"Unsupported Mojang format version: ", version,
               ". Max supported is: ", supportedVersion>>)
    ELSE NoError

validateSupportedMojangVersion(version) ==
    IF version > supportedVersion
    THEN UnknownVersionException(
             <<"Unsupported Mojang format version: ", version,
               ". Max supported is: ", supportedVersion>>)
    ELSE NoError

CurrentPolyMCFormatVersion == 1

validateSupportedPolyMCVersion(version) ==
    IF version > CurrentPolyMCFormatVersion
    THEN UnknownVersionException(
             <<"Unsupported PolyMC format version: ", version,
               ". Max supported is: ", CurrentPolyMCFormatVersion>>)
    ELSE NoError

\* MojangVersionFile.minimumLauncherVersion = IntegerProperty(default=None, ...)
minimumLauncherVersion_default == None

\* formatVersion declared without a default, as the other optional fields are
formatVersion_default_none == None

\* VersionedJsonObject.formatVersion = IntegerProperty(default=CurrentPolyMCFormatVersion, ...)
formatVersion_default == Some(CurrentPolyMCFormatVersion)

GatedClasses == {"MojangVersionFile", "VersionedJsonObject"}

FieldDefault(kind) ==
    IF kind = "MojangVersionFile" THEN minimumLauncherVersion_default
    ELSE formatVersion_default

FieldValidator(kind, version) ==
    IF kind = "MojangVersionFile" THEN validateSupportedMojangVersion(version)
    ELSE validateSupportedPolyMCVersion(version)

\* The mapping engine's decode of one validated integer field: an absent key
\* takes the declared default, the validator runs on a value that is not None,
\* and what it raises leaves the constructor, so that no object is returned
DecodeField(kind, input) ==
    LET value  == IF IsNone(input) THEN FieldDefault(kind) ELSE input
        raised == IF IsNone(value) THEN NoError ELSE FieldValidator(kind, Val(value))
    IN  IF raised.raised = "none"
        THEN [obj |-> TRUE, value |-> value, err |-> raised]
        ELSE [obj |-> FALSE, value |-> None, err |-> raised]

(* Scenario 4: a version number is validated, a file with or without its    *)
(* version field is decoded                                                 *)

GateInit ==
    /\ gKind \in GatedClasses
    /\ gInput \in {None} \cup { Some(v) : v \in 0..MaxVersion }
    /\ gValue = None /\ gObj = FALSE /\ gErr = None
    /\ pc = "start"
    /\ CoordIdle /\ CmpIdle /\ PersistIdle

\* a direct call of the class's validator on the number the file carries
Validate ==
    /\ pc = "start"
    /\ ~IsNone(gInput)
    /\ gErr' = Some(FieldValidator(gKind, Val(gInput)))
    /\ pc' = "validated"
    /\ UNCHANGED <<coordVars, cmpVars, persistVars, gKind, gInput, gValue, gObj>>

\* MojangVersionFile(json) / VersionedJsonObject(json)
Decode ==
    /\ pc = "start"
    /\ LET r == DecodeField(gKind, gInput)
       IN  /\ gObj' = r.obj
           /\ gValue' = r.value
           /\ gErr' = Some(r.err)
           /\ pc' = IF r.obj THEN "decoded" ELSE "rejected"
    /\ UNCHANGED <<coordVars, cmpVars, persistVars, gKind, gInput>>

GateNext == Validate \/ Decode
SpecGate == GateInit /\ [][GateNext]_vars

(* Properties of scenario 4 *)

\* C8: the Mojang gate raises UnknownVersionException exactly for versions
\* above 21 and the PolyMC gate exactly for versions above 1; the exception
\* carries the observed version and the maximum; a rejected decode returns no
\* object, an accepted one returns the object with the version read.
C8_GatesRejectAboveMaximum ==
    (pc \in {"validated", "decoded", "rejected"} /\ ~IsNone(gInput)) =>
        LET v   == Val(gInput)
            max == IF gKind = "MojangVersionFile" THEN 21 ELSE 1
            e   == Val(gErr)
        IN
        /\ e.raised = "UnknownVersionException" <=> v > max
        /\ e.raised = "none" <=> v <= max
        /\ v > max => e.message[2] = v /\ e.message[4] = max
        /\ pc = "rejected" <=> (gObj = FALSE /\ pc # "validated" /\ v > max)
        /\ pc = "decoded" => gObj = TRUE /\ gValue = Some(v)
        /\ pc = "rejected" => IsNone(gValue)

C8_Witness ==
    /\ pc = "rejected" /\ gKind = "MojangVersionFile" /\ gInput = Some(22)
    /\ gObj = FALSE /\ Val(gErr).message[2] = 22 /\ Val(gErr).message[4] = 21

\* C9 as stated: with the version field absent, decode succeeds and the field
\* is the current supported version of the format, 1 for a versioned native
\* object and 21 for an upstream manifest.
C9_OmittedTakesCurrentVersion ==
    (pc \in {"decoded", "rejected"} /\ IsNone(gInput)) =>
        /\ pc = "decoded" /\ gObj = TRUE /\ Val(gErr).raised = "none"
        /\ gValue = Some(IF gKind = "MojangVersionFile" THEN 21 ELSE 1)

\* C9 amended: with the version field absent, decode succeeds; an omitted
\* formatVersion decodes to 1, an omitted minimumLauncherVersion stays None.
C9_OmittedTakesDeclaredDefault ==
    (pc \in {"decoded", "rejected"} /\ IsNone(gInput)) =>
        /\ pc = "decoded" /\ gObj = TRUE /\ Val(gErr).raised = "none"
        /\ gKind = "VersionedJsonObject" => gValue = Some(1)
        /\ gKind = "MojangVersionFile" => gValue = None

C9_Witness ==
    /\ pc = "decoded" /\ IsNone(gInput) /\ gKind = "MojangVersionFile"
    /\ gObj = TRUE /\ gValue = None

-----------------------------------------------------------------------------
(* The shared-package persistence helpers *)

\* PMC_DIR = polymc_path()
PMC_DIR == "PMC_DIR"

Uids == {"net.minecraft", "org.lwjgl"}

\* PMC_DIR + "/%s/package.json" % self.uid, in write()
writePath(d) == <<PMC_DIR, "/", d.uid, "/package.json">>

\* PMC_DIR + "/%s/package.json" % uid, in readSharedPackageData()
readPath(uid) == <<PMC_DIR, "/", uid, "/package.json">>

\* The mapping engine's to_json() of a PolyMCSharedPackageData: description is
\* left out when it is None
to_json(d) ==
    IF IsNone(d.description)
    THEN [formatVersion |-> d.formatVersion, name |-> d.name, uid |-> d.uid]
    ELSE [formatVersion |-> d.formatVersion, name |-> d.name, uid |-> d.uid,
          description |-> Val(d.description)]

\* PolyMCSharedPackageData(json): name and uid are required, formatVersion is
\* defaulted and validated, description is optional
PolyMCSharedPackageData(j) ==
    IF ~({"name", "uid"} \subseteq DOMAIN j)
    THEN [raised |-> "BadValueError", obj |-> None]
    ELSE LET fv == DecodeField("VersionedJsonObject",
                       IF "formatVersion" \in DOMAIN j THEN Some(j.formatVersion) ELSE None)
         IN  IF ~fv.obj
             THEN [raised |-> fv.err.raised, obj |-> None]
             ELSE [raised |-> "none",
                   obj |-> Some([formatVersion |-> Val(fv.value),
                                 name |-> j.name,
                                 uid |-> j.uid,
                                 description |-> IF "description" \in DOMAIN j
                                                 THEN Some(j.description) ELSE None])]

\* What the operating system does to a call that writes: nothing, fail the
\* open, or fail the dump after the file was opened (and so truncated)
WriteIO == {"ok", "open_fails", "dump_fails"}
\* and to one that reads
ReadIO == {"ok", "open_fails", "read_fails"}

\* write() as it would be without its try/except
write_propagating(d, files, io) ==
    IF io = "open_fails"
    THEN [files |-> files, printed |-> <<>>, raised |-> "OSError"]
    ELSE IF io = "dump_fails"
    THEN [files |-> [files EXCEPT ![writePath(d)] =
                        Some([truncated |-> TRUE, json |-> to_json(d)])],
          printed |-> <<>>, raised |-> "OSError"]
    ELSE [files |-> [files EXCEPT ![writePath(d)] =
                        Some([truncated |-> FALSE, json |-> to_json(d)])],
          printed |-> <<>>, raised |-> "none"]

\* PolyMCSharedPackageData.write(): the files afterwards, what was printed,
\* what was raised
write(d, files, io) ==
    IF io = "open_fails"
    THEN [files |-> files,
          printed |-> << [uid |-> d.uid, error |-> io] >>,
          raised |-> "none"]
    ELSE IF io = "dump_fails"
    THEN [files |-> [files EXCEPT ![writePath(d)] =
                        Some([truncated |-> TRUE, json |-> to_json(d)])],
          printed |-> << [uid |-> d.uid, error |-> io] >>,
          raised |-> "none"]
    ELSE [files |-> [files EXCEPT ![writePath(d)] =
                        Some([truncated |-> FALSE, json |-> to_json(d)])],
          printed |-> <<>>,
          raised |-> "none"]

\* readSharedPackageData(uid): the object returned or the exception raised
readSharedPackageData(uid, files, io) ==
    LET file == files[readPath(uid)]
    IN  IF io = "open_fails" \/ IsNone(file)
        THEN [raised |-> "OSError", obj |-> None]
        ELSE IF io = "read_fails"
        THEN [raised |-> "OSError", obj |-> None]
        ELSE IF Val(file).truncated
        THEN [raised |-> "JSONDecodeError", obj |-> None]
        ELSE PolyMCSharedPackageData(Val(file).json)

(* Scenario 5: a caller builds, loads and saves shared package data while   *)
(* file operations may fail                                                 *)

Descriptors ==
    { [formatVersion |-> CurrentPolyMCFormatVersion, name |-> "pkg", uid |-> u,
       description |-> ds] : u \in Uids, ds \in {None, Some("text")} }

\* What may lie at a package's path before the program runs: nothing, a file
\* cut short, a file of this format, of a later format, or without its version
FilesBefore(u) ==
    LET doc == [formatVersion |-> CurrentPolyMCFormatVersion, name |-> "pkg", uid |-> u]
    IN  { None,
          Some([truncated |-> TRUE, json |-> doc]),
          Some([truncated |-> FALSE, json |-> doc]),
          Some([truncated |-> FALSE,
                json |-> [doc EXCEPT !.formatVersion = CurrentPolyMCFormatVersion + 1]]),
          Some([truncated |-> FALSE, json |-> [name |-> "pkg", uid |-> u]]),
          Some([truncated |-> FALSE, json |-> [formatVersion |-> CurrentPolyMCFormatVersion,
                                               uid |-> u]]) }

PersistInit ==
    /\ fs \in { f \in [{ readPath(u) : u \in Uids } -> UNION { FilesBefore(u) : u \in Uids }] :
                  \A u \in Uids : f[readPath(u)] \in FilesBefore(u) }
    /\ mem = None
    /\ diag = <<>>
    /\ last = NoCall
    /\ pc = "run"
    /\ CoordIdle /\ CmpIdle /\ GateIdle

\* the caller constructs or changes its descriptor in memory
Update(d) ==
    /\ pc = "run"
    /\ mem # Some(d)
    /\ mem' = Some(d)
    /\ last' = [op |-> "update", uid |-> d.uid, io |-> "none", raised |-> "none",
                returned |-> None, before |-> mem]
    /\ UNCHANGED <<pc, coordVars, cmpVars, gateVars, fs, diag>>

\* mem.write()
Save(io) ==
    /\ pc = "run"
    /\ ~IsNone(mem)
    /\ io # "ok" => Len(diag) < MaxDiag
    /\ LET r == write(Val(mem), fs, io)
       IN  /\ fs' = r.files
           /\ diag' = diag \o r.printed
           /\ last' = [op |-> "write", uid |-> Val(mem).uid, io |-> io,
                       raised |-> r.raised, returned |-> None, before |-> mem]
    /\ UNCHANGED <<pc, coordVars, cmpVars, gateVars, mem>>

\* mem = readSharedPackageData(uid)
Load(uid, io) ==
    /\ pc = "run"
    /\ LET r == readSharedPackageData(uid, fs, io)
       IN  /\ mem' = IF r.raised = "none" THEN r.obj ELSE mem
           /\ last' = [op |-> "read", uid |-> uid, io |-> io,
                       raised |-> r.raised, returned |-> r.obj, before |-> mem]
    /\ UNCHANGED <<pc, coordVars, cmpVars, gateVars, fs, diag>>

PersistNext ==
    \/ \E d \in Descriptors : Update(d)
    \/ \E io \in WriteIO : Save(io)
    \/ \E u \in Uids, io \in ReadIO : Load(u, io)

SpecPersist == PersistInit /\ [][PersistNext]_vars

(* Properties of scenario 5 *)

\* The file of package u, at the fixed path <data-root>/<uid>/package.json
PackageFile(u) == fs[<<PMC_DIR, "/", u, "/package.json">>]

\* A file that decodes: whole, with name and uid, of a supported format
Decodable(file) ==
    /\ ~IsNone(file)
    /\ ~Val(file).truncated
    /\ {"name", "uid"} \subseteq DOMAIN Val(file).json
    /\ "formatVersion" \in DOMAIN Val(file).json => Val(file).json.formatVersion <= 1

\* C10: write() never raises: on an I/O failure it prints a message naming the
\* package and returns, and the descriptor in memory is as before; after a
\* write that did not fail the package's file holds the descriptor.
\* readSharedPackageData(uid) raises on every I/O failure and on every file
\* that does not decode, and then returns nothing; otherwise it returns what
\* the file at the same path holds.
C10_WriteSwallowsReadPropagates ==
    /\ last.op = "write" =>
         /\ last.raised = "none"
         /\ mem = last.before
         /\ last.io # "ok" =>
              /\ Len(diag) > 0
              /\ diag[Len(diag)].uid = last.uid
         /\ last.io = "ok" =>
              /\ Decodable(PackageFile(last.uid))
              /\ Val(PackageFile(last.uid)).json.uid = Val(mem).uid
              /\ ("description" \in DOMAIN Val(PackageFile(last.uid)).json)
                     <=> ~IsNone(Val(mem).description)
    /\ last.op = "read" =>
         /\ last.raised # "none" <=> (last.io # "ok" \/ ~Decodable(PackageFile(last.uid)))
         /\ last.raised # "none" => IsNone(last.returned) /\ mem = last.before
         /\ last.raised = "none" =>
              /\ mem = last.returned
              /\ Val(last.returned).uid = Val(PackageFile(last.uid)).json.uid
              /\ Val(last.returned).formatVersion = 1

C10_Witness ==
    /\ last.op = "read" /\ last.raised = "JSONDecodeError" /\ IsNone(last.returned)
    /\ Len(diag) = 1 /\ diag[1] = [uid |-> last.uid, error |-> "dump_fails"]
    /\ mem = last.before /\ ~IsNone(mem) /\ Val(mem).uid = last.uid

=============================================================================
